---- MODULE Spec2Model ----
(***************************************************************************)
(* Model of actionlint's concurrent external-process runner (process.go):  *)
(* cmdExecution, concurrentProcess and externalCommand, together with the   *)
(* semantics of the library primitives they are built on                    *)
(* (semaphore.Weighted, sync.WaitGroup, errgroup.Group).                    *)
(***************************************************************************)
EXTENDS Integers, Sequences, FiniteSets, TLC

\* ------------------------------------------------------------------ bounds
\* Number of externalCommand.run calls explored.
MaxUnits == 3
\* Largest pool capacity explored (the `par` of newConcurrentProcess).
MaxPar == 2
\* Capacity of the OS pipe behind cmd.StdinPipe(): the longest payload a
\* write takes while nobody reads.
PipeBuf == 1
\* Longest command string given to newCommandRunner.
MaxCmdLen == 4

\* Caller goroutines: the runners issue run() calls, the waiter issues
\* wait() calls.  A wait changes nothing the other goroutines read, so one
\* waiter stands for any caller that waits, a runner included.
Runners == {"r1", "r2"}
Waiters == {"w"}
Threads == Runners \cup Waiters
\* The externalCommand handles sharing the one pool.
Handles == {"A", "B"}
Units == 1 .. MaxUnits

\* ------------------------------------------------------------ error values
\* A Go error value.  kind tells which statement built it, code and stderr
\* are the parts of its message, src is the unit whose worker allocated it
\* (each fmt.Errorf call yields a fresh object, so src is its identity).
Nil == [kind |-> "nil", code |-> 0, stderr |-> <<>>, src |-> 0]

MkErr(kind, code, stderr) == [kind |-> kind, code |-> code, stderr |-> stderr, src |-> 0]

Tag(err, u) == IF err = Nil THEN Nil ELSE [err EXCEPT !.src = u]

\* ------------------------------------------------------------ the handles
\* externalCommand fields after newCommandRunner: A is a bare executable,
\* B was resolved from a command line with one baked-in argument and has
\* combineOutput switched on.
HandleExe(h) == IF h = "A" THEN "exeA" ELSE "exeB"

HandleArgs(h) == IF h = "A" THEN <<>> ELSE <<"b">>

HandleCombine(h) == h = "B"

\* Faulty variant: one errgroup.Group for the whole pool.
GroupOfShared(h) == "A"

\* Each externalCommand owns its errgroup.Group (field eg), named after it.
GroupOf(h) == h

\* --------------------------------------------------------- cmdExecution.run
\* What the operating system does with one exec.Cmd: fail is "start" when
\* the process could not be started, "io" when Output() failed for another
\* reason than the exit status, "none" when the process ran and exited with
\* `code` (-1: killed by a signal) after writing out to stdout and errout to
\* stderr.
ExitCodes == {-1, 0, 1, 2}

OutTexts == {<<>>, <<"o">>}

ErrTexts == {<<>>, <<"e">>}

\* Output() could not start the process: nothing ran, nothing was written.
StartFailure == [fail |-> "start", code |-> 0, out |-> <<>>, errout |-> <<>>]

Outcomes ==
    { [fail |-> f, code |-> c, out |-> o, errout |-> e] :
        f \in {"none"}, c \in ExitCodes, o \in OutTexts, e \in ErrTexts }
    \cup
    { StartFailure }
    \cup
    { [fail |-> f, code |-> 0, out |-> o, errout |-> <<>>] : f \in {"io"}, o \in OutTexts }

\* The outcomes drawn while exploring the pool: one of each class.
PoolOutcomes ==
    { StartFailure,
      [fail |-> "none", code |-> 0, out |-> <<"o">>, errout |-> <<>>],
      [fail |-> "none", code |-> 1, out |-> <<"o">>, errout |-> <<>>],
      [fail |-> "none", code |-> 1, out |-> <<>>, errout |-> <<"e">>],
      [fail |-> "none", code |-> -1, out |-> <<>>, errout |-> <<>>] }

\* The bytes cmd.Output() / cmd.CombinedOutput() return.
Captured(combine, o) == IF combine THEN o.out \o o.errout ELSE o.out

\* Faulty variant: the empty-stdout test comes before the test of the sign.
ClassifySwapped(combine, o) ==
    LET stdout == Captured(combine, o)
        failed == o.fail # "none" \/ o.code # 0
        isExitError == o.fail = "none" /\ o.code # 0
        stderr == IF combine THEN stdout ELSE o.errout
    IN  IF failed
        THEN IF isExitError
             THEN IF Len(stdout) = 0
                  THEN [stdout |-> <<>>, err |-> MkErr("emptyStdout", o.code, stderr)]
                  ELSE IF o.code < 0
                       THEN [stdout |-> <<>>, err |-> MkErr("terminated", 0, stderr)]
                       ELSE [stdout |-> stdout, err |-> Nil]
             ELSE [stdout |-> <<>>, err |-> MkErr("raw", 0, <<>>)]
        ELSE [stdout |-> stdout, err |-> Nil]

\* Faulty variant: the empty-stdout test looks at the process's own stdout.
ClassifyOwnStdout(combine, o) ==
    LET stdout == Captured(combine, o)
        failed == o.fail # "none" \/ o.code # 0
        isExitError == o.fail = "none" /\ o.code # 0
        stderr == IF combine THEN stdout ELSE o.errout
    IN  IF failed
        THEN IF isExitError
             THEN IF o.code < 0
                  THEN [stdout |-> <<>>, err |-> MkErr("terminated", 0, stderr)]
                  ELSE IF Len(o.out) = 0
                       THEN [stdout |-> <<>>, err |-> MkErr("emptyStdout", o.code, stderr)]
                       ELSE [stdout |-> stdout, err |-> Nil]
             ELSE [stdout |-> <<>>, err |-> MkErr("raw", 0, <<>>)]
        ELSE [stdout |-> stdout, err |-> Nil]

\* Lines 414-444: the classification of what Output() returned.
Classify(combine, o) ==
    LET stdout == Captured(combine, o)
        failed == o.fail # "none" \/ o.code # 0
        isExitError == o.fail = "none" /\ o.code # 0
        stderr == IF combine THEN stdout ELSE o.errout
    IN  IF failed
        THEN IF isExitError
             THEN IF o.code < 0
                  THEN [stdout |-> <<>>, err |-> MkErr("terminated", 0, stderr)]
                  ELSE IF Len(stdout) = 0
                       THEN [stdout |-> <<>>, err |-> MkErr("emptyStdout", o.code, stderr)]
                       ELSE [stdout |-> stdout, err |-> Nil]
             ELSE [stdout |-> <<>>, err |-> MkErr("raw", 0, <<>>)]
        ELSE [stdout |-> stdout, err |-> Nil]

\* ------------------------------------------------- resolveExternalCommand
\* A command string is a sequence of characters: letters, the space and the
\* single quote.
Chars == {"a", "b", " ", "'"}

RECURSIVE StringsUpTo(_)
StringsUpTo(n) ==
    IF n = 0 THEN {<<>>}
    ELSE LET shorter == StringsUpTo(n - 1)
         IN  shorter \cup {Append(w, c) : w \in {x \in shorter : Len(x) = n - 1}, c \in Chars}

\* What the search path may hold: executables a, b and one whose file name
\* has a space in it.
PathCandidates == {<<"a">>, <<"b">>, <<"a", " ", "b">>}

\* execabs.LookPath: the path of the file found, or an error.
LookPath(path, name) ==
    IF name \in path
    THEN [err |-> FALSE, c |-> <<"/">> \o name]
    ELSE [err |-> TRUE, c |-> <<>>]

RECURSIVE ParseFrom(_, _, _, _, _, _)
\* shellwords.Parse, one character at a time: blanks outside quotes end a
\* word, a quote opens or closes a quoted stretch (which makes a word even
\* when it is empty), the end of the line inside a quote is an error.
ParseFrom(line, i, quoted, got, buf, args) ==
    IF i > Len(line)
    THEN IF quoted THEN [err |-> TRUE, a |-> <<>>]
         ELSE [err |-> FALSE, a |-> IF got THEN Append(args, buf) ELSE args]
    ELSE LET r == line[i] IN
         IF r = "'"
         THEN ParseFrom(line, i + 1, ~quoted, TRUE, buf, args)
         ELSE IF r = " " /\ ~quoted
         THEN IF got
              THEN ParseFrom(line, i + 1, quoted, FALSE, <<>>, Append(args, buf))
              ELSE ParseFrom(line, i + 1, quoted, FALSE, <<>>, args)
         ELSE ParseFrom(line, i + 1, quoted, TRUE, Append(buf, r), args)

Parse(line) == ParseFrom(line, 1, FALSE, FALSE, <<>>, <<>>)

\* Faulty variant: the string is parsed as a command line first.
ResolveParseFirst(path, exe) ==
    LET direct == LookPath(path, exe)
        p == Parse(exe)
        first == IF ~p.err /\ Len(p.a) > 0
                 THEN LookPath(path, p.a[1]) ELSE [err |-> TRUE, c |-> <<>>]
    IN  IF ~first.err
        THEN [err |-> FALSE, c |-> first.c, args |-> Tail(p.a)]
        ELSE IF ~direct.err
        THEN [err |-> FALSE, c |-> direct.c, args |-> <<>>]
        ELSE [err |-> TRUE, c |-> <<>>, args |-> <<>>]

\* Lines 503-517.
resolveExternalCommand(path, exe) ==
    LET direct == LookPath(path, exe)
        p == Parse(exe)
        first == IF ~p.err /\ Len(p.a) > 0
                 THEN LookPath(path, p.a[1]) ELSE [err |-> TRUE, c |-> <<>>]
    IN  IF ~direct.err
        THEN [err |-> FALSE, c |-> direct.c, args |-> <<>>]
        ELSE IF ~first.err
        THEN [err |-> FALSE, c |-> first.c, args |-> Tail(p.a)]
        ELSE [err |-> TRUE, c |-> <<>>, args |-> <<>>]

\* Lines 488-501: the handle, or no handle and the error.
newCommandRunner(path, exe, combineOutput) ==
    LET r == resolveExternalCommand(path, exe)
    IN  IF r.err
        THEN [err |-> TRUE, made |-> FALSE, cmd |-> [exe |-> <<>>, args |-> <<>>,
                                                       combineOutput |-> FALSE]]
        ELSE [err |-> FALSE, made |-> TRUE,
              cmd |-> [exe |-> r.c, args |-> r.args, combineOutput |-> combineOutput]]

\* ---------------------------------------------------------------- callbacks
\* The callbacks the callers pass to run(): "pass" returns the error it was
\* given, "swallow" returns nil whatever it was given, "fail" returns the
\* error it was given or else an error of its own.
CallbackKinds == {"pass", "swallow", "fail"}

CallbackRet(kind, err) ==
    CASE kind = "pass" -> err
      [] kind = "swallow" -> Nil
      [] kind = "fail" -> IF err # Nil THEN err ELSE MkErr("callback", 0, <<>>)

\* ------------------------------------------------------------------- state
VARIABLES
    par,      \* capacity of proc.sema
    semCur,   \* semaphore.Weighted.cur: slots held
    semQ,     \* semaphore.Weighted.waiters: FIFO of blocked workers
    pwg,      \* counter of proc.wg
    egv,      \* per errgroup: counter of its WaitGroup
    gerr,     \* per errgroup: g.err
    gonce,    \* per errgroup: errOnce already fired
    errLog,   \* per errgroup: the non-nil errors its workers returned, in order
    units,    \* per run() call: the worker's position and data
    nunits,   \* number of run() calls so far
    tpc,      \* per caller: position
    top,      \* per caller: the call in progress
    profile,  \* what the callers and the operating system do in this run
    crash,    \* the Go runtime panicked (the program is gone)
    fx,       \* a function of the program applied to one input, outside any run
    hcmd,     \* per handle: the fields exe, args, combineOutput of externalCommand
    pwaited,  \* history: the run() calls made when a pool.wait() last returned, -1 if none did
    hwaited   \* history, per handle: what its wait() last returned, nil if none did

vars == <<par, semCur, semQ, pwg, egv, gerr, gonce, errLog, units, nunits, tpc, top,
          profile, crash, fx, hcmd, pwaited, hwaited>>

NoExec == [cmd |-> "", args |-> <<>>, stdin |-> 0, combineOutput |-> FALSE]

NoUnit ==
    [pc |-> "none", h |-> "A", exec |-> NoExec, stdout |-> <<>>, err |-> Nil,
     ret |-> Nil, calls |-> 0]

NoOp == [h |-> "A", u |-> 0, xargs |-> <<>>, n |-> 0, snap |-> {}, slept |-> FALSE,
         ret |-> Nil]

NoFx == [fn |-> "none", combine |-> FALSE, o |-> StartFailure, done |-> FALSE,
         res |-> [stdout |-> <<>>, err |-> Nil]]

\* Two handles, every class of outcome, two run() calls.
HandleProfile ==
    [units |-> MaxUnits - 1, handles |-> Handles, stdins |-> {0}, xargs |-> {<<>>},
     outcomes |-> PoolOutcomes, callbacks |-> CallbackKinds]

\* The state after newConcurrentProcess(par) and newCommandRunner for each
\* handle, with callers that will behave as p says.
InitWith(p) ==
    /\ par \in 1 .. MaxPar
    /\ semCur = 0
    /\ semQ = <<>>
    /\ pwg = 0
    /\ egv = [h \in Handles |-> 0]
    /\ gerr = [h \in Handles |-> Nil]
    /\ gonce = [h \in Handles |-> FALSE]
    /\ errLog = [h \in Handles |-> <<>>]
    /\ units = [u \in Units |-> NoUnit]
    /\ nunits = 0
    /\ tpc = [t \in Threads |-> "idle"]
    /\ top = [t \in Threads |-> NoOp]
    /\ profile = p
    /\ crash = FALSE
    /\ hcmd = [h \in Handles |->
                [exe |-> HandleExe(h), args |-> HandleArgs(h),
                 combineOutput |-> HandleCombine(h)]]
    /\ pwaited = -1
    /\ hwaited = [h \in Handles |-> Nil]

\* One handle, three run() calls, a process that starts or does not.
PoolProfile ==
    [units |-> MaxUnits, handles |-> {"A"}, stdins |-> {0}, xargs |-> {<<>>},
     outcomes |-> {StartFailure,
                   [fail |-> "none", code |-> 0, out |-> <<"o">>, errout |-> <<>>]},
     callbacks |-> {"pass"}]

Init == InitWith(HandleProfile) /\ fx = NoFx

\* Two run() calls with extra arguments of every length up to two, on a
\* handle without and a handle with baked-in arguments.
ArgsProfile ==
    [units |-> MaxUnits - 1, handles |-> Handles, stdins |-> {0},
     xargs |-> {<<>>, <<"x">>, <<"x", "y">>},
     outcomes |-> {[fail |-> "none", code |-> 0, out |-> <<"o">>, errout |-> <<>>]},
     callbacks |-> {"pass"}]

ArgsInit == InitWith(ArgsProfile) /\ fx = NoFx

\* Two run() calls on one handle, with an empty stdin payload or one longer
\* than the pipe takes, a process that starts or does not, a callback that
\* passes the error on or fails by itself.
StdinProfile ==
    [units |-> MaxUnits - 1, handles |-> {"A"}, stdins |-> {0, PipeBuf + 1},
     xargs |-> {<<>>},
     outcomes |-> {StartFailure,
                   [fail |-> "none", code |-> 0, out |-> <<"o">>, errout |-> <<>>]},
     callbacks |-> {"pass", "fail"}]

StdinInit == InitWith(StdinProfile) /\ fx = NoFx

\* Two run() calls on one handle, of a process that starts and exits zero.
ReuseProfile ==
    [units |-> MaxUnits - 1, handles |-> {"A"}, stdins |-> {0}, xargs |-> {<<>>},
     outcomes |-> {[fail |-> "none", code |-> 0, out |-> <<"o">>, errout |-> <<>>]},
     callbacks |-> {"pass"}]

ReuseInit == InitWith(ReuseProfile) /\ fx = NoFx

\* Two run() calls on one handle, of a process that starts or does not, with
\* a callback that passes the error on or fails by itself.
StickyProfile ==
    [units |-> MaxUnits - 1, handles |-> {"A"}, stdins |-> {0}, xargs |-> {<<>>},
     outcomes |-> {StartFailure,
                   [fail |-> "none", code |-> 0, out |-> <<"o">>, errout |-> <<>>]},
     callbacks |-> {"pass", "fail"}]

StickyInit == InitWith(StickyProfile) /\ fx = NoFx

\* No run at all: one newCommandRunner call on one command string with one
\* content of the search path.
ResolveInit ==
    /\ InitWith(HandleProfile)
    /\ fx \in { [fn |-> "resolve", path |-> p, exe |-> e, combine |-> c, done |-> FALSE,
                  res |-> newCommandRunner({}, <<>>, FALSE)] :
                   p \in SUBSET PathCandidates, e \in StringsUpTo(MaxCmdLen), c \in BOOLEAN }

PoolInit == InitWith(PoolProfile) /\ fx = NoFx

\* No run at all: one classification of one outcome of one process.
ClassifyInit ==
    /\ InitWith(HandleProfile)
    /\ fx \in { [NoFx EXCEPT !.fn = "classify", !.combine = c, !.o = o] :
                   c \in BOOLEAN, o \in Outcomes }

\* ------------------------------------------------------------ the callers
\* Faulty variant: run() without proc.wg.Add(1).
RunAddNoAdd(t) ==
    /\ ~crash
    /\ tpc[t] = "idle"
    /\ nunits < profile.units
    /\ \E h \in profile.handles, xa \in profile.xargs, sin \in profile.stdins :
         LET u == nunits + 1
             allArgs == IF Len(hcmd[h].args) > 0 THEN hcmd[h].args \o xa ELSE xa
             e == [cmd |-> hcmd[h].exe, args |-> allArgs, stdin |-> sin,
                   combineOutput |-> hcmd[h].combineOutput]
         IN  /\ units' = [units EXCEPT ![u] = [NoUnit EXCEPT !.pc = "added", !.h = h, !.exec = e]]
             /\ nunits' = u
             /\ pwg' = pwg
             /\ tpc' = [tpc EXCEPT ![t] = "run_go"]
             /\ top' = [top EXCEPT ![t] = [NoOp EXCEPT !.h = h, !.u = u, !.xargs = xa]]
    /\ UNCHANGED <<par, semCur, semQ, egv, gerr, gonce, errLog, profile, crash, fx, hcmd, pwaited, hwaited>>

\* Faulty variant: run() appends the extra arguments to cmd.args itself.
RunAddInPlace(t) ==
    /\ ~crash
    /\ tpc[t] = "idle"
    /\ nunits < profile.units
    /\ \E h \in profile.handles, xa \in profile.xargs, sin \in profile.stdins :
         LET u == nunits + 1
             allArgs == IF Len(hcmd[h].args) > 0 THEN hcmd[h].args \o xa ELSE xa
             e == [cmd |-> hcmd[h].exe, args |-> allArgs, stdin |-> sin,
                   combineOutput |-> hcmd[h].combineOutput]
         IN  /\ units' = [units EXCEPT ![u] = [NoUnit EXCEPT !.pc = "added", !.h = h, !.exec = e]]
             /\ nunits' = u
             /\ pwg' = pwg + 1
             /\ tpc' = [tpc EXCEPT ![t] = "run_go"]
             /\ top' = [top EXCEPT ![t] = [NoOp EXCEPT !.h = h, !.u = u, !.xargs = xa]]
             /\ hcmd' = [hcmd EXCEPT ![h].args = allArgs]
    /\ UNCHANGED <<par, semCur, semQ, egv, gerr, gonce, errLog, profile, crash, fx, pwaited, hwaited>>

\* externalCommand.run, lines 534-541, and proc.wg.Add(1) of line 469.
RunAdd(t) ==
    /\ ~crash
    /\ tpc[t] = "idle"
    /\ nunits < profile.units
    /\ \E h \in profile.handles, xa \in profile.xargs, sin \in profile.stdins :
         LET u == nunits + 1
             allArgs == IF Len(hcmd[h].args) > 0 THEN hcmd[h].args \o xa ELSE xa
             e == [cmd |-> hcmd[h].exe, args |-> allArgs, stdin |-> sin,
                   combineOutput |-> hcmd[h].combineOutput]
         IN  /\ units' = [units EXCEPT ![u] = [NoUnit EXCEPT !.pc = "added", !.h = h, !.exec = e]]
             /\ nunits' = u
             /\ pwg' = pwg + 1
             /\ tpc' = [tpc EXCEPT ![t] = "run_go"]
             /\ top' = [top EXCEPT ![t] = [NoOp EXCEPT !.h = h, !.u = u, !.xargs = xa]]
    /\ UNCHANGED <<par, semCur, semQ, egv, gerr, gonce, errLog, profile, crash, fx, hcmd, pwaited, hwaited>>

\* Faulty variant: run() takes the admission slot itself before it starts the worker.
RunGoBlocking(t) ==
    /\ ~crash
    /\ tpc[t] = "run_go"
    /\ semCur < par
    /\ semCur' = semCur + 1
    /\ LET u == top[t].u
           g == GroupOf(top[t].h)
       IN  /\ egv' = [egv EXCEPT ![g] = @ + 1]
           /\ units' = [units EXCEPT ![u].pc = "acquired"]
    /\ tpc' = [tpc EXCEPT ![t] = "idle"]
    /\ top' = [top EXCEPT ![t] = NoOp]
    /\ UNCHANGED <<par, semQ, pwg, gerr, gonce, errLog, nunits, profile, crash, fx, hcmd, pwaited, hwaited>>

\* eg.Go of line 470: the errgroup counts the worker and starts its goroutine.
RunGo(t) ==
    /\ ~crash
    /\ tpc[t] = "run_go"
    /\ LET u == top[t].u
           g == GroupOf(top[t].h)
       IN  /\ egv' = [egv EXCEPT ![g] = @ + 1]
           /\ units' = [units EXCEPT ![u].pc = "spawned"]
    /\ tpc' = [tpc EXCEPT ![t] = "idle"]
    /\ top' = [top EXCEPT ![t] = NoOp]
    /\ UNCHANGED <<par, semCur, semQ, pwg, gerr, gonce, errLog, nunits, profile, crash, fx, hcmd, pwaited, hwaited>>

\* ------------------------------------------------------------ the workers
\* The goroutine eg.Go starts runs lines 471-477, then errgroup's own
\* epilogue (errOnce.Do, then its WaitGroup's Done).
AtPc(u, pc) == ~crash /\ units[u].pc = pc

\* Faulty variant: the capacity test is off by one.
CanAcquireOffByOne(cur, q, size) == size - cur >= 0 /\ Len(q) = 0

\* semaphore.Weighted.Acquire(ctx, 1) succeeds at once when a slot is free
\* and nobody queues.
CanAcquire(cur, q, size) == size - cur >= 1 /\ Len(q) = 0

\* Line 472.  proc.ctx is context.Background(): Acquire never fails, it
\* takes a slot or queues the worker.
Acquire(u) ==
    /\ AtPc(u, "spawned")
    /\ IF CanAcquire(semCur, semQ, par)
       THEN /\ semCur' = semCur + 1
            /\ semQ' = semQ
            /\ units' = [units EXCEPT ![u].pc = "acquired"]
       ELSE /\ semCur' = semCur
            /\ semQ' = Append(semQ, u)
            /\ units' = [units EXCEPT ![u].pc = "waiting"]
    /\ UNCHANGED <<par, pwg, egv, gerr, gonce, errLog, nunits, tpc, top, profile, crash, fx, hcmd, pwaited, hwaited>>

\* Lines 404-412: cmd.StdinPipe() makes the pipe, io.WriteString writes the
\* whole payload into it and the pipe is closed.  The child is not started
\* yet, nothing reads the pipe: the write returns only if the payload fits
\* the pipe's buffer.
ExecStdin(u) ==
    /\ AtPc(u, "acquired")
    /\ units[u].exec.stdin <= PipeBuf
    /\ units' = [units EXCEPT ![u].pc = "piped"]
    /\ UNCHANGED <<par, semCur, semQ, pwg, egv, gerr, gonce, errLog, nunits, tpc, top,
                   profile, crash, fx, hcmd, pwaited, hwaited>>

\* Faulty variant: a stdin error returns from the worker before the Release.
ExecStdinFailLeak(u) ==
    /\ AtPc(u, "acquired")
    /\ \E k \in {"stdinPipe", "stdinWrite"} :
         units' = [units EXCEPT ![u].pc = "released", ![u].stdout = <<>>,
                                ![u].err = Tag(MkErr(k, 0, <<>>), u)]
    /\ UNCHANGED <<par, semCur, semQ, pwg, egv, gerr, gonce, errLog, nunits, tpc, top,
                   profile, crash, fx, hcmd, pwaited, hwaited>>

\* Lines 405-407 and 408-411: StdinPipe or WriteString reports an error.
ExecStdinFail(u) ==
    /\ AtPc(u, "acquired")
    /\ \E k \in {"stdinPipe", "stdinWrite"} :
         units' = [units EXCEPT ![u].pc = "ran", ![u].stdout = <<>>,
                                ![u].err = Tag(MkErr(k, 0, <<>>), u)]
    /\ UNCHANGED <<par, semCur, semQ, pwg, egv, gerr, gonce, errLog, nunits, tpc, top,
                   profile, crash, fx, hcmd, pwaited, hwaited>>

\* Lines 414-444: Output() (or CombinedOutput()) starts the child and
\* returns when it has exited; what it returned is classified.
ExecOutput(u) ==
    /\ AtPc(u, "piped")
    /\ \E o \in profile.outcomes :
         LET r == Classify(units[u].exec.combineOutput, o)
         IN  units' = [units EXCEPT ![u].pc = "ran", ![u].stdout = r.stdout,
                                    ![u].err = Tag(r.err, u)]
    /\ UNCHANGED <<par, semCur, semQ, pwg, egv, gerr, gonce, errLog, nunits, tpc, top,
                   profile, crash, fx, hcmd, pwaited, hwaited>>

\* Faulty variant: a failed execution returns before the Release.
ReleaseUnlessFailed(u) ==
    /\ AtPc(u, "ran")
    /\ IF units[u].err # Nil
       THEN /\ semCur' = semCur
            /\ semQ' = semQ
            /\ units' = [units EXCEPT ![u].pc = "released"]
       ELSE IF Len(semQ) > 0
       THEN /\ semCur' = semCur
            /\ semQ' = Tail(semQ)
            /\ units' = [units EXCEPT ![u].pc = "released", ![Head(semQ)].pc = "acquired"]
       ELSE /\ semCur' = semCur - 1
            /\ semQ' = semQ
            /\ units' = [units EXCEPT ![u].pc = "released"]
    /\ UNCHANGED <<par, pwg, egv, gerr, gonce, errLog, nunits, tpc, top, profile, crash, fx, hcmd, pwaited, hwaited>>

\* Faulty variant: the worker goes on to the callback with its slot still held.
ReleaseKeepsSlot(u) ==
    /\ AtPc(u, "ran")
    /\ units' = [units EXCEPT ![u].pc = "released"]
    /\ UNCHANGED <<par, semCur, semQ, pwg, egv, gerr, gonce, errLog, nunits, tpc, top,
                   profile, crash, fx, hcmd, pwaited, hwaited>>

\* Line 476.  semaphore.Weighted.Release(1) gives the slot back and
\* notifyWaiters hands it to the head of the queue, if any.
Release(u) ==
    /\ AtPc(u, "ran")
    /\ IF Len(semQ) > 0
       THEN /\ semCur' = semCur
            /\ semQ' = Tail(semQ)
            /\ units' = [units EXCEPT ![u].pc = "released", ![Head(semQ)].pc = "acquired"]
       ELSE /\ semCur' = semCur - 1
            /\ semQ' = semQ
            /\ units' = [units EXCEPT ![u].pc = "released"]
    /\ UNCHANGED <<par, pwg, egv, gerr, gonce, errLog, nunits, tpc, top, profile, crash, fx, hcmd, pwaited, hwaited>>

\* Faulty variant: a failed execution is returned without calling the callback.
CallbackInvokeSkip(u) ==
    /\ AtPc(u, "released")
    /\ units' = IF units[u].err # Nil
                THEN [units EXCEPT ![u].pc = "cbdone", ![u].ret = units[u].err]
                ELSE [units EXCEPT ![u].pc = "incb", ![u].calls = @ + 1]
    /\ UNCHANGED <<par, semCur, semQ, pwg, egv, gerr, gonce, errLog, nunits, tpc, top,
                   profile, crash, fx, hcmd, pwaited, hwaited>>

\* Line 477: the callback is called with what exec.run() returned.
CallbackInvoke(u) ==
    /\ AtPc(u, "released")
    /\ units' = [units EXCEPT ![u].pc = "incb", ![u].calls = @ + 1]
    /\ UNCHANGED <<par, semCur, semQ, pwg, egv, gerr, gonce, errLog, nunits, tpc, top,
                   profile, crash, fx, hcmd, pwaited, hwaited>>

\* Line 477: the callback returns, its result is the worker's result.
CallbackReturn(u) ==
    /\ AtPc(u, "incb")
    /\ \E k \in profile.callbacks :
         LET r == CallbackRet(k, units[u].err)
         IN  units' = [units EXCEPT ![u].pc = "cbdone",
                                    ![u].ret = IF r.src = 0 THEN Tag(r, u) ELSE r]
    /\ UNCHANGED <<par, semCur, semQ, pwg, egv, gerr, gonce, errLog, nunits, tpc, top,
                   profile, crash, fx, hcmd, pwaited, hwaited>>

\* Line 471: the deferred proc.wg.Done().  sync.WaitGroup wakes every
\* sleeping Wait when the counter reaches zero.
WgDone(u) ==
    /\ AtPc(u, "cbdone")
    /\ pwg' = pwg - 1
    /\ units' = [units EXCEPT ![u].pc = "wgdone"]
    /\ tpc' = [t \in Threads |->
                 IF pwg - 1 = 0 /\ tpc[t] = "pwait_sleep" THEN "pwait_woken" ELSE tpc[t]]
    /\ UNCHANGED <<par, semCur, semQ, egv, gerr, gonce, errLog, nunits, top, profile, crash, fx, hcmd, pwaited, hwaited>>

\* Faulty variant: the worker returns the execution error, not the callback's result.
WorkerResultExec(cbret, execerr) == execerr

\* Faulty variant: the worker calls the callback and returns nil.
WorkerResultNone(cbret, execerr) == Nil

\* Line 477, `return callback(stdout, err)`: the worker's result is what the
\* callback returned, whatever exec.run() returned.
WorkerResult(cbret, execerr) == cbret

\* Faulty variant: no errOnce, the last error is kept.
EgRecordLastWins(u) ==
    /\ AtPc(u, "wgdone")
    /\ LET g == GroupOf(units[u].h)
           r == WorkerResult(units[u].ret, units[u].err)
       IN  /\ gerr' = IF r # Nil THEN [gerr EXCEPT ![g] = r] ELSE gerr
           /\ gonce' = IF r # Nil THEN [gonce EXCEPT ![g] = TRUE] ELSE gonce
           /\ errLog' = IF r # Nil THEN [errLog EXCEPT ![g] = Append(@, r)] ELSE errLog
    /\ units' = [units EXCEPT ![u].pc = "recorded"]
    /\ UNCHANGED <<par, semCur, semQ, pwg, egv, nunits, tpc, top, profile, crash, fx, hcmd, pwaited, hwaited>>

\* errgroup.Group.Go: a non-nil result is kept by errOnce.Do, once.
EgRecord(u) ==
    /\ AtPc(u, "wgdone")
    /\ LET g == GroupOf(units[u].h)
           r == WorkerResult(units[u].ret, units[u].err)
       IN  /\ gerr' = IF r # Nil /\ ~gonce[g] THEN [gerr EXCEPT ![g] = r] ELSE gerr
           /\ gonce' = IF r # Nil THEN [gonce EXCEPT ![g] = TRUE] ELSE gonce
           /\ errLog' = IF r # Nil THEN [errLog EXCEPT ![g] = Append(@, r)] ELSE errLog
    /\ units' = [units EXCEPT ![u].pc = "recorded"]
    /\ UNCHANGED <<par, semCur, semQ, pwg, egv, nunits, tpc, top, profile, crash, fx, hcmd, pwaited, hwaited>>

\* errgroup.Group.Go: the deferred g.done(), the Done of the group's WaitGroup.
EgDone(u) ==
    /\ AtPc(u, "recorded")
    /\ LET g == GroupOf(units[u].h)
       IN  /\ egv' = [egv EXCEPT ![g] = @ - 1]
           /\ tpc' = [t \in Threads |->
                        IF egv[g] - 1 = 0 /\ tpc[t] = "hwait_sleep" /\ GroupOf(top[t].h) = g
                        THEN "hwait_woken" ELSE tpc[t]]
    /\ units' = [units EXCEPT ![u].pc = "finished"]
    /\ UNCHANGED <<par, semCur, semQ, pwg, gerr, gonce, errLog, nunits, top, profile, crash, fx, hcmd, pwaited, hwaited>>

\* ------------------------------------------------------------- the waits
\* The units whose proc.wg.Add(1) has run.
Scheduled == {u \in Units : units[u].pc # "none"}

\* The units handle h passed to eg.Go.
Issued(h) == {u \in Units : units[u].h = h /\ units[u].pc \notin {"none", "added"}}

\* Faulty variant: a barrier that opens once; after a wait() has returned, Wait
\* returns at once whatever the counter.
PWaitBeginSingleShot(t) ==
    /\ ~crash
    /\ tpc[t] = "idle"
    /\ tpc' = [tpc EXCEPT ![t] = IF pwg = 0 \/ pwaited >= 0 THEN "pwait_ret"
                                  ELSE "pwait_sleep"]
    /\ top' = [top EXCEPT ![t] = [NoOp EXCEPT !.n = nunits, !.slept = pwg # 0]]
    /\ UNCHANGED <<par, semCur, semQ, pwg, egv, gerr, gonce, errLog, units, nunits,
                   profile, crash, fx, hcmd, pwaited, hwaited>>

\* concurrentProcess.wait, line 483: proc.wg.Wait() returns at once on a
\* zero counter and sleeps otherwise.
PWaitBegin(t) ==
    /\ ~crash
    /\ tpc[t] = "idle"
    /\ tpc' = [tpc EXCEPT ![t] = IF pwg = 0 THEN "pwait_ret" ELSE "pwait_sleep"]
    /\ top' = [top EXCEPT ![t] = [NoOp EXCEPT !.n = nunits, !.slept = pwg # 0]]
    /\ UNCHANGED <<par, semCur, semQ, pwg, egv, gerr, gonce, errLog, units, nunits,
                   profile, crash, fx, hcmd, pwaited, hwaited>>

\* sync.WaitGroup.Wait after the wake-up: the counter is still zero.
PWaitWoken(t) ==
    /\ ~crash
    /\ tpc[t] = "pwait_woken"
    /\ pwg = 0
    /\ tpc' = [tpc EXCEPT ![t] = "pwait_ret"]
    /\ UNCHANGED <<par, semCur, semQ, pwg, egv, gerr, gonce, errLog, units, nunits, top,
                   profile, crash, fx, hcmd, pwaited, hwaited>>

\* sync.WaitGroup.Wait after the wake-up: an Add came in between, Wait
\* panics with "WaitGroup is reused before previous Wait has returned".
PWaitPanic(t) ==
    /\ ~crash
    /\ tpc[t] = "pwait_woken"
    /\ pwg # 0
    /\ crash' = TRUE
    /\ UNCHANGED <<par, semCur, semQ, pwg, egv, gerr, gonce, errLog, units, nunits, tpc,
                   top, profile, fx, hcmd, pwaited, hwaited>>

\* externalCommand.wait, line 548: errgroup.Group.Wait starts with g.wg.Wait().
HWaitBegin(t) ==
    /\ ~crash
    /\ tpc[t] = "idle"
    /\ \E h \in profile.handles :
         LET g == GroupOf(h) IN
         /\ tpc' = [tpc EXCEPT ![t] = IF egv[g] = 0 THEN "hwait_read" ELSE "hwait_sleep"]
         /\ top' = [top EXCEPT ![t] =
                      [NoOp EXCEPT !.h = h, !.slept = egv[g] # 0, !.snap = Issued(h)]]
    /\ UNCHANGED <<par, semCur, semQ, pwg, egv, gerr, gonce, errLog, units, nunits,
                   profile, crash, fx, hcmd, pwaited, hwaited>>

\* The group's WaitGroup after the wake-up, as in PWaitWoken.
HWaitWoken(t) ==
    /\ ~crash
    /\ tpc[t] = "hwait_woken"
    /\ egv[GroupOf(top[t].h)] = 0
    /\ tpc' = [tpc EXCEPT ![t] = "hwait_read"]
    /\ UNCHANGED <<par, semCur, semQ, pwg, egv, gerr, gonce, errLog, units, nunits, top,
                   profile, crash, fx, hcmd, pwaited, hwaited>>

\* The group's WaitGroup after the wake-up, as in PWaitPanic.
HWaitPanic(t) ==
    /\ ~crash
    /\ tpc[t] = "hwait_woken"
    /\ egv[GroupOf(top[t].h)] # 0
    /\ crash' = TRUE
    /\ UNCHANGED <<par, semCur, semQ, pwg, egv, gerr, gonce, errLog, units, nunits, tpc,
                   top, profile, fx, hcmd, pwaited, hwaited>>

\* Faulty variant: wait() hands the error over and clears it.
HWaitReadAndReset(t) ==
    /\ ~crash
    /\ tpc[t] = "hwait_read"
    /\ tpc' = [tpc EXCEPT ![t] = "hwait_ret"]
    /\ top' = [top EXCEPT ![t].ret = gerr[GroupOf(top[t].h)]]
    /\ gerr' = [gerr EXCEPT ![GroupOf(top[t].h)] = Nil]
    /\ gonce' = [gonce EXCEPT ![GroupOf(top[t].h)] = FALSE]
    /\ UNCHANGED <<par, semCur, semQ, pwg, egv, errLog, units, nunits,
                   profile, crash, fx, hcmd, pwaited, hwaited>>

\* errgroup.Group.Wait returns g.err.
HWaitRead(t) ==
    /\ ~crash
    /\ tpc[t] = "hwait_read"
    /\ tpc' = [tpc EXCEPT ![t] = "hwait_ret"]
    /\ top' = [top EXCEPT ![t].ret = gerr[GroupOf(top[t].h)]]
    /\ UNCHANGED <<par, semCur, semQ, pwg, egv, gerr, gonce, errLog, units, nunits,
                   profile, crash, fx, hcmd, pwaited, hwaited>>

\* The caller goes on after a wait returned.
WaitReturn(t) ==
    /\ ~crash
    /\ tpc[t] \in {"pwait_ret", "hwait_ret"}
    /\ tpc' = [tpc EXCEPT ![t] = "idle"]
    /\ top' = [top EXCEPT ![t] = NoOp]
    /\ UNCHANGED <<par, semCur, semQ, pwg, egv, gerr, gonce, errLog, units, nunits,
                   profile, crash, fx, hcmd, pwaited, hwaited>>

\* WaitReturn, observed: the caller goes on after a wait returned; the
\* return of a pool.wait() is noted with the run() calls made so far, the
\* return of a handle's wait() with what it returned.
WaitReturnNoted(t) ==
    /\ ~crash
    /\ tpc[t] \in {"pwait_ret", "hwait_ret"}
    /\ pwaited' = IF tpc[t] = "pwait_ret" THEN nunits ELSE pwaited
    /\ hwaited' = IF tpc[t] = "hwait_ret"
                  THEN [hwaited EXCEPT ![top[t].h] = top[t].ret] ELSE hwaited
    /\ tpc' = [tpc EXCEPT ![t] = "idle"]
    /\ top' = [top EXCEPT ![t] = NoOp]
    /\ UNCHANGED <<par, semCur, semQ, pwg, egv, gerr, gonce, errLog, units, nunits,
                   profile, crash, fx, hcmd>>

\* ------------------------------------------------------- the specification
RunnerStep(t) ==
    \/ RunAdd(t)
    \/ RunGo(t)

WaiterStep(t) ==
    \/ PWaitBegin(t)
    \/ PWaitWoken(t)
    \/ PWaitPanic(t)
    \/ HWaitBegin(t)
    \/ HWaitWoken(t)
    \/ HWaitPanic(t)
    \/ HWaitRead(t)
    \/ WaitReturn(t)

WorkerStep(u) ==
    \/ Acquire(u)
    \/ ExecStdin(u)
    \/ ExecStdinFail(u)
    \/ ExecOutput(u)
    \/ Release(u)
    \/ CallbackInvoke(u)
    \/ CallbackReturn(u)
    \/ WgDone(u)
    \/ EgRecord(u)
    \/ EgDone(u)

Next ==
    \/ \E t \in Runners : RunnerStep(t)
    \/ \E t \in Waiters : WaiterStep(t)
    \/ \E u \in Units : WorkerStep(u)

\* The second half of cmdExecution.run (lines 414-444) on its own.
ClassifyApply ==
    /\ fx.fn = "classify"
    /\ ~fx.done
    /\ fx' = [fx EXCEPT !.done = TRUE, !.res = Classify(fx.combine, fx.o)]
    /\ UNCHANGED <<par, semCur, semQ, pwg, egv, gerr, gonce, errLog, units, nunits, tpc,
                   top, profile, crash, hcmd, pwaited, hwaited>>

ClassifyNext == ClassifyApply

\* newCommandRunner (lines 488-501) on its own.
ResolveApply ==
    /\ fx.fn = "resolve"
    /\ ~fx.done
    /\ fx' = [fx EXCEPT !.done = TRUE, !.res = newCommandRunner(fx.path, fx.exe, fx.combine)]
    /\ UNCHANGED <<par, semCur, semQ, pwg, egv, gerr, gonce, errLog, units, nunits, tpc,
                   top, profile, crash, hcmd, pwaited, hwaited>>

ResolveNext == ResolveApply

\* Callers that only schedule: no wait() races with a run().
FairNext ==
    \/ \E t \in Runners : RunnerStep(t)
    \/ \E u \in Units : WorkerStep(u)

\* The waiter's steps with the returns of pool.wait() noted.
WaiterStepNoted(t) ==
    \/ PWaitBegin(t)
    \/ PWaitWoken(t)
    \/ PWaitPanic(t)
    \/ HWaitBegin(t)
    \/ HWaitWoken(t)
    \/ HWaitPanic(t)
    \/ HWaitRead(t)
    \/ WaitReturnNoted(t)

ReuseNext ==
    \/ \E t \in Runners : RunnerStep(t)
    \/ \E t \in Waiters : WaiterStepNoted(t)
    \/ \E u \in Units : WorkerStep(u)

\* The Go scheduler runs every runnable goroutine, a started process exits
\* and a callback returns; nothing obliges a caller to call run() or the
\* operating system to fail a pipe.
Fairness ==
    /\ \A t \in Runners : WF_vars(RunGo(t))
    /\ \A u \in Units :
         /\ WF_vars(Acquire(u))
         /\ WF_vars(ExecStdin(u))
         /\ WF_vars(ExecOutput(u))
         /\ WF_vars(Release(u))
         /\ WF_vars(CallbackInvoke(u))
         /\ WF_vars(CallbackReturn(u))
         /\ WF_vars(WgDone(u))
         /\ WF_vars(EgRecord(u))
         /\ WF_vars(EgDone(u))

Spec == Init /\ [][Next]_vars

PoolSpec == PoolInit /\ [][Next]_vars

ClassifySpec == ClassifyInit /\ [][ClassifyNext]_vars

FairSpec == Init /\ [][FairNext]_vars /\ Fairness

ArgsSpec == ArgsInit /\ [][Next]_vars

StdinSpec == StdinInit /\ [][Next]_vars

ReuseSpec == ReuseInit /\ [][ReuseNext]_vars

StickySpec == StickyInit /\ [][ReuseNext]_vars

ResolveSpec == ResolveInit /\ [][ResolveNext]_vars

\* ------------------------------------------------------------------ claims
\* The workers between a successful Acquire and their Release.
Holding == {u \in Units : units[u].pc \in {"acquired", "piped", "ran"}}

\* The callback of u was called and has returned.
CallbackDone(u) == units[u].pc \in {"cbdone", "wgdone", "recorded", "finished"}

\* u was passed to eg.Go and its worker has not finished.
InFlight(u) == units[u].pc \notin {"none", "added", "finished"}

\* C1: in every reachable state, at most k workers hold an admission slot
\* (have acquired one and not yet released it), k being the pool's capacity.
C1_AtMostKExecuting == Cardinality(Holding) <= par /\ semCur = Cardinality(Holding)

\* All k = 2 slots are held and a third worker queues for one.
C1_Witness == par = 2 /\ Cardinality(Holding) = 2 /\ Len(semQ) = 1

\* C2: when pool.wait() has returned, every unit scheduled (by any handle)
\* before that wait() began has had its callback called, once, and the
\* callback has returned.
C2_PoolWaitCoversScheduled ==
    \A t \in Waiters :
        tpc[t] = "pwait_ret" =>
            \A u \in 1 .. top[t].n : CallbackDone(u) /\ units[u].calls = 1

\* A pool.wait() that slept has returned after two units of two handles.
C2_Witness ==
    \E t \in Waiters :
        /\ tpc[t] = "pwait_ret"
        /\ top[t].slept
        /\ top[t].n = 2
        /\ units[1].h # units[2].h

\* C3: handle.wait() on a handle depends on that handle's invocations only:
\* it sleeps only while one of them is in flight, and the error it returns
\* was produced by one of them, never by another handle's.
C3_HandleWaitIsPerHandle ==
    \A t \in Waiters :
        /\ tpc[t] = "hwait_sleep" =>
              \E u \in Units : units[u].h = top[t].h /\ InFlight(u)
        /\ tpc[t] = "hwait_ret" /\ top[t].ret # Nil =>
              units[top[t].ret.src].h = top[t].h

\* wait() on A slept and has returned A's error while B's invocation, which
\* fails too, is still in flight.
C3_Witness ==
    \E t \in Waiters, u \in Units :
        /\ tpc[t] = "hwait_ret"
        /\ top[t].h = "A"
        /\ top[t].slept
        /\ top[t].ret # Nil
        /\ units[u].h = "B"
        /\ InFlight(u)
        /\ units[u].err # Nil

\* The units of handle h whose callback has returned.
Returned(h) == {u \in Units : units[u].h = h /\ CallbackDone(u)}

\* C4: what handle.wait() returns is decided by what the handle's callbacks
\* returned, alone: a returned error is one a callback returned; no error is
\* returned only if every callback returned none, whatever error it was
\* given; and when one callback alone returned an error E (be it for a
\* process that exited zero), E itself is returned.
C4_WaitReturnsCallbackResult ==
    \A t \in Waiters :
        tpc[t] = "hwait_ret" =>
            LET h == top[t].h
                r == top[t].ret
            IN  /\ r # Nil => \E u \in Returned(h) : units[u].ret = r
                /\ r = Nil => \A u \in top[t].snap : units[u].ret = Nil
                /\ \A u \in top[t].snap :
                     (/\ units[u].ret # Nil
                      /\ \A v \in Returned(h) \ {u} : units[v].ret = Nil)
                     => r = units[u].ret

\* wait() has returned the error a callback made up for a process that
\* exited zero, and not the execution error another callback was given and
\* swallowed.
C4_Witness ==
    \E t \in Waiters, u, v \in Units :
        /\ tpc[t] = "hwait_ret"
        /\ {u, v} \subseteq top[t].snap
        /\ units[u].err = Nil
        /\ units[u].ret.kind = "callback"
        /\ top[t].ret = units[u].ret
        /\ units[v].err # Nil
        /\ units[v].ret = Nil

\* C5, as claimed: if an invocation issued through the handle failed (spawn,
\* stdin, abnormal termination, nonzero exit with empty stdout), wait()
\* returns an error.
C5_Original ==
    \A t \in Waiters :
        tpc[t] = "hwait_ret" =>
            ((\E u \in top[t].snap : units[u].err # Nil) => top[t].ret # Nil)

\* C5, amended: if the callback of an invocation issued through the handle
\* returned an error, as it does when it passes on the failure it was given,
\* the tracker holds an error and wait() returns one; failures the callbacks
\* all swallowed are reported as success.
C5_CallbackErrorIsReported ==
    \A t \in Waiters :
        tpc[t] = "hwait_ret" =>
            LET h == top[t].h IN
            /\ (\E u \in top[t].snap : units[u].ret # Nil) =>
                  top[t].ret # Nil /\ gerr[GroupOf(h)] # Nil
            /\ (\A u \in Returned(h) : units[u].ret = Nil) => top[t].ret = Nil

\* wait() has returned the execution error a callback passed on.
C5_Witness ==
    \E t \in Waiters, u \in Units :
        /\ tpc[t] = "hwait_ret"
        /\ u \in top[t].snap
        /\ units[u].err # Nil
        /\ units[u].ret = units[u].err
        /\ top[t].ret = units[u].err

\* C6: first error wins.  The group's error is at all times the first of the
\* errors its workers have returned so far, a later one never replaces it;
\* wait() returns that first error, and returns none only if no invocation
\* issued before it began returned one.
C6_FirstErrorWins ==
    /\ \A h \in Handles :
         gerr[GroupOf(h)] = IF errLog[GroupOf(h)] = <<>> THEN Nil
                            ELSE Head(errLog[GroupOf(h)])
    /\ \A t \in Waiters :
         tpc[t] = "hwait_ret" =>
             LET log == errLog[GroupOf(top[t].h)]
                 r == top[t].ret
             IN  /\ r # Nil => log # <<>> /\ r = Head(log)
                 /\ r = Nil => \A u \in top[t].snap : units[u].ret = Nil

\* Two invocations of one handle returned an error, the second one issued
\* first: wait() has returned the first error recorded.
C6_Witness ==
    \E t \in Waiters :
        /\ tpc[t] = "hwait_ret"
        /\ Len(errLog[GroupOf(top[t].h)]) = 2
        /\ errLog[GroupOf(top[t].h)][1].src = 2
        /\ top[t].ret = errLog[GroupOf(top[t].h)][1]
        /\ top[t].snap = {1, 2}

\* C7: failure isolation.  Whatever fails (a spawn, a stdin step, a fatal
\* exit, a callback returning an error), every unit scheduled on the pool is
\* eventually admitted, executed and has its callback called and returned.
C7_FailureIsolation ==
    \A u \in Units :
        (units[u].pc # "none") ~> (CallbackDone(u) /\ units[u].calls = 1)

\* On a pool of one slot, the first unit failed and its callback returned
\* an error; the second unit, of the other handle, ran to its end all the same.
C7_Witness ==
    /\ par = 1
    /\ units[1].err # Nil
    /\ units[1].ret # Nil
    /\ CallbackDone(1)
    /\ units[2].h # units[1].h
    /\ units[2].pc = "finished"
    /\ units[2].calls = 1

RECURSIVE SumCalls(_)
\* The number of callback calls made for the units of S.
SumCalls(S) ==
    IF S = {} THEN 0
    ELSE LET u == CHOOSE x \in S : TRUE IN units[u].calls + SumCalls(S \ {u})

\* C8: every run() call produces exactly one callback call: a unit's callback
\* has been called once from the moment it is called and never before, and
\* when pool.wait() has returned with no run() issued since it began, the
\* callbacks completed are as many as the run() calls made, by any caller.
C8_OneCallbackPerRun ==
    /\ \A u \in Units :
         units[u].calls = IF units[u].pc = "incb" \/ CallbackDone(u) THEN 1 ELSE 0
    /\ \A t \in Waiters :
         tpc[t] = "pwait_ret" /\ top[t].n = nunits =>
             SumCalls({u \in Units : CallbackDone(u)}) = nunits

\* pool.wait() slept and has returned after three run() calls: three
\* callbacks completed.
C8_Witness ==
    \E t \in Waiters :
        /\ tpc[t] = "pwait_ret"
        /\ top[t].slept
        /\ top[t].n = 3
        /\ nunits = 3
        /\ SumCalls({u \in Units : CallbackDone(u)}) = 3

\* C9: the classification of one execution.  Not started, or an error of
\* Output() that is no exit status: the raw error.  Negative exit code:
\* "was terminated", captured output or not.  Positive exit code: "exited
\* with status N but stdout was empty" when nothing was captured, else no
\* error and the captured output.  Exit zero: no error and the captured
\* output as it is.
C9_Classification ==
    fx.fn = "classify" /\ fx.done =>
        LET o == fx.o
            captured == Captured(fx.combine, o)
            r == fx.res
        IN  /\ o.fail # "none" => r.err.kind = "raw" /\ r.stdout = <<>>
            /\ o.fail = "none" /\ o.code < 0 =>
                  r.err.kind = "terminated" /\ r.stdout = <<>>
            /\ o.fail = "none" /\ o.code > 0 /\ captured = <<>> =>
                  r.err.kind = "emptyStdout" /\ r.err.code = o.code /\ r.stdout = <<>>
            /\ o.fail = "none" /\ o.code > 0 /\ captured # <<>> =>
                  r.err = Nil /\ r.stdout = captured
            /\ o.fail = "none" /\ o.code = 0 => r.err = Nil /\ r.stdout = captured

\* A process killed by a signal after it wrote to stdout is classified
\* "was terminated".
C9_Witness ==
    /\ fx.fn = "classify"
    /\ fx.done
    /\ fx.o.fail = "none"
    /\ fx.o.code < 0
    /\ fx.o.out # <<>>
    /\ fx.res.err.kind = "terminated"

\* C10: run() never waits for an admission slot.  A caller inside run() can
\* always take its next step, whatever the semaphore holds, and the workers
\* alone queue on the semaphore.
C10_RunDoesNotBlock ==
    ~crash =>
        /\ \A t \in Runners : tpc[t] = "run_go" => ENABLED RunGo(t)
        /\ \A t \in Runners : tpc[t] \in {"idle", "run_go"}
        /\ \A i \in 1 .. Len(semQ) : units[semQ[i]].pc = "waiting"

\* Every slot is held, the queue holds a worker whose run() has returned:
\* no caller is inside run().
C10_Witness ==
    /\ semCur = par
    /\ Len(semQ) > 0
    /\ \A t \in Runners : tpc[t] = "idle"

\* C11, as claimed: handle.wait() may run while other goroutines call run()
\* on the same handle.  The group's counter is at all times the number of
\* its invocations in flight, and a wait() that was woken finds that counter
\* at zero and returns: it never finds the WaitGroup in use again, which is
\* where sync.WaitGroup.Wait panics and takes the program down.
C11_Original ==
    /\ \A h \in Handles :
         egv[GroupOf(h)] = Cardinality({u \in Units : units[u].h = h /\ InFlight(u)})
    /\ \A t \in Waiters :
         tpc[t] = "hwait_woken" => egv[GroupOf(top[t].h)] = 0

\* C12: the argument vector of the execution unit a run(extraArgs, ...) call
\* builds is the handle's baked-in arguments followed by extraArgs, in order,
\* and its executable is the handle's, also when two calls run at once on one
\* handle; the unit keeps them as built; no run() changes the handle's
\* executable, baked-in arguments or combine flag.
C12_ArgVector ==
    /\ [](\A t \in Runners :
            tpc[t] = "run_go" =>
                LET e == units[top[t].u].exec
                    h == top[t].h
                IN  /\ e.cmd = HandleExe(h)
                    /\ e.args = HandleArgs(h) \o top[t].xargs
                    /\ Len(e.args) = Len(HandleArgs(h)) + Len(top[t].xargs))
    /\ [](\A h \in Handles :
            hcmd[h] = [exe |-> HandleExe(h), args |-> HandleArgs(h),
                       combineOutput |-> HandleCombine(h)])
    /\ [][\A u \in Units : units[u].pc # "none" => units'[u].exec = units[u].exec]_vars

\* Two callers are inside run() on handle B at once, with different extra
\* arguments; the second call's unit has B's argument followed by its own two.
C12_Witness ==
    /\ tpc["r1"] = "run_go"
    /\ tpc["r2"] = "run_go"
    /\ top["r1"].h = "B"
    /\ top["r2"].h = "B"
    /\ top["r1"].xargs = <<"x">>
    /\ top["r2"].xargs = <<"x", "y">>
    /\ top["r2"].u = 2
    /\ units[2].exec.args = <<"b", "x", "y">>

\* The number of quote characters in a command string.
Quotes(line) == Cardinality({i \in 1 .. Len(line) : line[i] = "'"})

\* C13: resolve(s).  If s itself is on the search path, the handle's
\* executable is the file found for s and it has no baked-in arguments,
\* whatever the words of s are.  Otherwise, if s parses to one word or more
\* and the first is on the search path, the executable is the file found
\* for the first word and the baked-in arguments are the other words in
\* order.  Otherwise newCommandRunner returns an error and no handle; so it
\* does for the empty string, for a string with a quote left open and for
\* any string when the search path is empty.
C13_Resolve ==
    fx.fn = "resolve" /\ fx.done =>
        LET s == fx.exe
            p == Parse(s)
            r == fx.res
            byFirst == ~p.err /\ Len(p.a) > 0 /\ p.a[1] \in fx.path
        IN  /\ s \in fx.path =>
                  /\ r.made /\ ~r.err
                  /\ r.cmd.exe = <<"/">> \o s
                  /\ r.cmd.args = <<>>
            /\ s \notin fx.path /\ byFirst =>
                  /\ r.made /\ ~r.err
                  /\ r.cmd.exe = <<"/">> \o p.a[1]
                  /\ r.cmd.args = SubSeq(p.a, 2, Len(p.a))
            /\ s \notin fx.path /\ ~byFirst => r.err /\ ~r.made
            /\ r.made => r.cmd.combineOutput = fx.combine
            /\ s = <<>> => r.err /\ ~r.made
            /\ Quotes(s) % 2 = 1 /\ s \notin fx.path => r.err /\ ~r.made
            /\ fx.path = {} => r.err /\ ~r.made

\* The string "a b" names a file on the search path and so does its first
\* word: the handle is made for the file "a b", with no arguments.
C13_Witness ==
    /\ fx.fn = "resolve"
    /\ fx.done
    /\ fx.exe = <<"a", " ", "b">>
    /\ fx.path = {<<"a">>, <<"a", " ", "b">>}
    /\ fx.res.made
    /\ fx.res.cmd.exe = <<"/", "a", " ", "b">>
    /\ fx.res.cmd.args = <<>>

\* exec.run() of u has returned: its process has exited or was not started.
Execd(u) == units[u].pc \in {"ran", "released", "incb", "cbdone", "wgdone", "recorded", "finished"}

\* The worker of u has signalled the barrier.
Signalled(u) == units[u].pc \in {"wgdone", "recorded", "finished"}

\* C14: for every unit, in this order: the process exits or fails to start,
\* the admission slot is given back, the callback is called, the barrier is
\* signalled.  A unit whose callback was called holds no slot (the slots
\* held are those of units whose callback was not called yet), and is still
\* counted by the barrier until its callback has returned; the step that
\* calls the callback frees no slot, the step that signals the barrier
\* comes after the callback's return; so while callbacks run, a worker that
\* asks for a slot gets one whenever fewer than k processes run.
C14_EventOrder ==
    /\ [](\A u \in Units :
            units[u].calls > 0 => Execd(u) /\ units[u].pc \notin {"acquired", "piped", "ran"})
    /\ [](semCur = Cardinality({u \in Units : units[u].calls = 0 /\ u \in Holding}))
    /\ [](pwg >= Cardinality({u \in Units : units[u].pc \in {"released", "incb", "cbdone"}}))
    /\ [][\A u \in Units :
            /\ units'[u].calls > units[u].calls =>
                  units[u].pc = "released" /\ semCur' = semCur /\ pwg' = pwg
            /\ Signalled(u)' /\ ~Signalled(u) =>
                  units[u].pc = "cbdone" /\ units[u].calls = 1 /\ pwg' = pwg - 1
            /\ (units[u].pc = "ran" /\ units'[u].pc # "ran") =>
                  /\ units'[u].pc = "released"
                  /\ units'[u].calls = 0
                  /\ semCur' + Len(semQ') = semCur + Len(semQ) - 1]_vars
    /\ [](\A u \in Units :
            units[u].pc = "spawned" /\ Cardinality(Holding) < par /\ ~crash =>
                ENABLED (Acquire(u) /\ units'[u].pc = "acquired"))

\* On a pool of one slot the callback of the first unit, whose process
\* could not be started, is executing while the process of the second unit
\* is running in the one slot.
C14_Witness ==
    /\ par = 1
    /\ units[1].pc = "incb"
    /\ units[1].err.kind = "raw"
    /\ units[2].pc = "piped"
    /\ semCur = 1

\* C15: whatever a unit's outcome (stdin pipe or write error, start failure,
\* fatal exit, success, callback returning an error), its worker gives its
\* slot back once and signals the barrier once.  The slots held are 0..k and
\* are those of the workers between Acquire and Release; the barrier counts
\* the scheduled units not yet signalled; a worker that gave its slot back
\* never holds one again and a unit once signalled stays so; no step frees
\* more than one slot or lowers the barrier by more than one; and when every
\* scheduled unit has been signalled all k slots are free, nobody queues and
\* the barrier is at zero.
C15_ReleaseAndSignalOnce ==
    /\ [](par - semCur \in 0 .. par)
    /\ [](par - semCur = par - Cardinality(Holding))
    /\ [](pwg = Cardinality(Scheduled) - Cardinality({u \in Units : Signalled(u)}))
    /\ []((\A u \in Scheduled : Signalled(u)) => semCur = 0 /\ semQ = <<>> /\ pwg = 0)
    /\ [][/\ \A u \in Units :
               /\ Execd(u) /\ units[u].pc # "ran" => (Execd(u) /\ units[u].pc # "ran")'
               /\ Signalled(u) => Signalled(u)'
          /\ semCur' >= semCur - 1
          /\ pwg' >= pwg - 1]_vars

\* Both units are through: one failed on its stdin, the callback of the
\* other returned an error of its own; all slots are free, the barrier is
\* at zero.
C15_Witness ==
    /\ nunits = 2
    /\ units[1].pc = "finished"
    /\ units[2].pc = "finished"
    /\ units[1].err.kind = "stdinWrite"
    /\ units[2].err = Nil
    /\ units[2].ret.kind = "callback"
    /\ semCur = 0
    /\ pwg = 0

\* cmd.Output() of u was reached and the child process was started.
Started(u) == Execd(u) /\ units[u].err.kind \notin {"stdinPipe", "stdinWrite", "raw"}

\* The payload of u was written to the stdin pipe and the pipe closed.
StdinWritten(u) ==
    \/ units[u].pc = "piped"
    \/ Execd(u) /\ units[u].err.kind \notin {"stdinPipe", "stdinWrite"}

\* C17, as claimed: in a unit's run() the child is started first and the
\* payload written after: whenever the payload has been written the child
\* has been started; and the write returns for a payload of any length, so
\* that a worker about to write can always go on to wait for the exit.
C17_Original ==
    \A u \in Units :
        /\ StdinWritten(u) => Started(u)
        /\ AtPc(u, "acquired") => ENABLED ExecStdin(u)

\* C16: the barrier's counter is never negative and is the number of
\* scheduled units not yet signalled by their worker.  The barrier can be
\* used again: after a pool.wait() has returned a caller can schedule a new
\* unit, and a later pool.wait() returns at once only on a zero counter,
\* sleeps otherwise, and has returned only when the callback of every unit
\* scheduled before it began, those scheduled after the earlier return
\* included, has been called and has returned.
C16_BarrierReusable ==
    /\ [](pwg >= 0)
    /\ [](pwg = Cardinality({u \in Scheduled : ~Signalled(u)}))
    /\ [](\A t \in Runners :
            pwaited >= 0 /\ ~crash /\ tpc[t] = "idle" /\ nunits < profile.units =>
                ENABLED RunAdd(t))
    /\ [](\A t \in Waiters :
            pwaited >= 0 /\ tpc[t] = "pwait_ret" =>
                \A u \in 1 .. top[t].n : CallbackDone(u) /\ Signalled(u))
    /\ [][\A t \in Waiters :
            pwaited >= 0 /\ tpc[t] # "pwait_ret" /\ tpc'[t] = "pwait_ret" => pwg = 0]_vars

\* A pool.wait() returned when one unit had been scheduled; a second unit
\* was scheduled afterwards, and a second pool.wait() slept and has returned
\* with that unit's callback done.
C16_Witness ==
    \E t \in Waiters :
        /\ pwaited = 1
        /\ tpc[t] = "pwait_ret"
        /\ top[t].slept
        /\ top[t].n = 2
        /\ CallbackDone(2)

\* C19: a handle's error is sticky.  Once a wait() on the handle has
\* returned an error E, every later wait() on it returns E itself, whatever
\* was issued in between and however it ended; the group's error, once set,
\* is never replaced nor cleared.
C19_ErrorIsSticky ==
    /\ [](\A t \in Waiters :
            tpc[t] = "hwait_ret" /\ hwaited[top[t].h] # Nil =>
                top[t].ret = hwaited[top[t].h])
    /\ [](\A h \in Handles : hwaited[h] # Nil => gerr[GroupOf(h)] = hwaited[h])
    /\ [][\A h \in Handles :
            gerr[GroupOf(h)] # Nil => gerr'[GroupOf(h)] = gerr[GroupOf(h)]]_vars

\* A wait() returned the error of the first invocation; the second
\* invocation was issued after that wait() began and succeeded; a second
\* wait() that covers both has returned the same error.
C19_Witness ==
    \E t \in Waiters :
        /\ tpc[t] = "hwait_ret"
        /\ hwaited["A"] # Nil
        /\ hwaited["A"].src = 1
        /\ top[t].h = "A"
        /\ top[t].snap = {1, 2}
        /\ units[2].pc = "finished"
        /\ units[2].err = Nil
        /\ units[2].ret = Nil
        /\ top[t].ret = hwaited["A"]

\* C20: with the combine flag set, the test for an empty stdout is made on
\* the stream that holds stdout and stderr together: a process that exits
\* with a positive status and writes to stderr only is classified a success
\* and its stderr text is the output given to the callback.  With the flag
\* unset the same process is a fatal exit ("exited with status N but stdout
\* was empty", with the stderr text in the message) and the callback gets no
\* output.
C20_CombinedEmptyTest ==
    (/\ fx.fn = "classify"
     /\ fx.done
     /\ fx.o.fail = "none"
     /\ fx.o.code > 0
     /\ fx.o.out = <<>>
     /\ fx.o.errout # <<>>)
    => IF fx.combine
       THEN fx.res.err = Nil /\ fx.res.stdout = fx.o.errout
       ELSE /\ fx.res.err.kind = "emptyStdout"
            /\ fx.res.err.code = fx.o.code
            /\ fx.res.err.stderr = fx.o.errout
            /\ fx.res.stdout = <<>>

\* A process that exited with status 2 and wrote to stderr only, run with
\* the flag set: classified a success, its stderr text is the output.
C20_Witness ==
    /\ fx.fn = "classify"
    /\ fx.done
    /\ fx.combine
    /\ fx.o = [fail |-> "none", code |-> 2, out |-> <<>>, errout |-> <<"e">>]
    /\ fx.res.err = Nil
    /\ fx.res.stdout = <<"e">>

====
